---- MODULE Spec2Model ----
(***************************************************************************)
(* The story-submission form of petermartin/story-collection-app.          *)
(*                                                                         *)
(* The repository holds two variants of the one component:                 *)
(*   "cloudflare"  src/unnamed/part_000: every image is uploaded at once   *)
(*                 to the image endpoint and its descriptor is retained;   *)
(*   "netlify"     src/src/components/StoryCollectionApp.tsx: the files    *)
(*                 are buffered and sent inline (base64) on submit.        *)
(* One variant is active per deployment: variant is fixed by Init.         *)
(*                                                                         *)
(* Text is a sequence of one-character strings.  A step of the model is    *)
(* one run of a handler, or of the continuation of an async handler after  *)
(* an await, on the single UI thread.  An async handler reads the state    *)
(* variables of the render that created it: what it read is kept in the    *)
(* record of the call (captured).                                          *)
(***************************************************************************)
EXTENDS Integers, Sequences, FiniteSets, TLC

VARIABLES
    variant,          \* which variant of the component is deployed
    form,             \* form values name, email, story (useForm)
    images,           \* form value 'images' (setValue('images', ...)); absent = << >>
    errors,           \* formState.errors: field -> message ("" = no error)
    isSubmitted,      \* formState.isSubmitted
    isSubmitting,     \* useState(false)
    submitMessage,    \* useState('')
    uploadedImages,   \* useState([]): uploadedImages / uploadedFiles
    uploadingImages,  \* useState(false) (cloudflare variant only)
    batches,          \* handleFiles calls awaiting Promise.all, oldest first
    submit,           \* the onSubmit call in flight (stage "idle": none)
    lastFiles,        \* the argument of the latest handleFiles call
    joined            \* the latest handleFiles call whose Promise.all resolved,
                      \* and which of its uploads settled last

vars == <<variant, form, images, errors, isSubmitted, isSubmitting, submitMessage,
          uploadedImages, uploadingImages, batches, submit, lastFiles, joined>>

-----------------------------------------------------------------------------
(* Characters *)

Uppers == <<"A","B","C","D","E","F","G","H","I","J","K","L","M",
            "N","O","P","Q","R","S","T","U","V","W","X","Y","Z">>
Lowers == <<"a","b","c","d","e","f","g","h","i","j","k","l","m",
            "n","o","p","q","r","s","t","u","v","w","x","y","z">>
Digits == {"0","1","2","3","4","5","6","7","8","9"}

Range(s) == {s[i] : i \in DOMAIN s}

UpperLetters == Range(Uppers)
Letters == Range(Uppers) \cup Range(Lowers)

IsLetter(c) == c \in Letters

\* String.prototype.toLowerCase, one character
LowerChar(c) ==
    IF c \in UpperLetters
    THEN Lowers[CHOOSE i \in DOMAIN Uppers : Uppers[i] = c]
    ELSE c

ToLowerCase(t) == [i \in DOMAIN t |-> LowerChar(t[i])]

\* \w of a JavaScript regular expression
IsWordChar(c) == IsLetter(c) \/ c \in Digits \/ c = "_"

\* \s of a JavaScript regular expression, and the white space trim() removes
IsSpaceChar(c) == c \in {" ", "\t", "\n", "\r"}

\* the first position at or after i that holds no white space (Len(t) + 1: none)
RECURSIVE TrimStart(_, _)
TrimStart(t, i) ==
    IF i <= Len(t) /\ IsSpaceChar(t[i]) THEN TrimStart(t, i + 1) ELSE i

\* the last position at or before j that holds no white space (0: none)
RECURSIVE TrimEnd(_, _)
TrimEnd(t, j) ==
    IF j >= 1 /\ IsSpaceChar(t[j]) THEN TrimEnd(t, j - 1) ELSE j

\* String.prototype.trim
Trim(t) == SubSeq(t, TrimStart(t, 1), TrimEnd(t, Len(t)))

-----------------------------------------------------------------------------
(* sanitizeText *)

\* .replace(/[<>]/g, '')
StripAngles(t) == SelectSeq(t, LAMBDA c : c \notin {"<", ">"})

JavascriptColon == <<"j","a","v","a","s","c","r","i","p","t",":">>

\* /javascript:/i matches t at position i
MatchesJavascriptAt(t, i) ==
    /\ i + Len(JavascriptColon) - 1 <= Len(t)
    /\ \A k \in DOMAIN JavascriptColon : LowerChar(t[i + k - 1]) = JavascriptColon[k]

\* the least element of a non-empty set of numbers
Min(S) == CHOOSE x \in S : \A y \in S : x <= y

\* .replace(/javascript:/gi, ''): the leftmost match at or after i is dropped,
\* the text before it is kept, and the search goes on after the match
RECURSIVE StripJavascriptFrom(_, _)
StripJavascriptFrom(t, i) ==
    LET starts == {k \in i..Len(t) : MatchesJavascriptAt(t, k)} IN
    IF starts = {} THEN SubSeq(t, i, Len(t))
    ELSE SubSeq(t, i, Min(starts) - 1)
            \o StripJavascriptFrom(t, Min(starts) + Len(JavascriptColon))

StripJavascript(t) == StripJavascriptFrom(t, 1)

\* the end of the longest run of \w characters that starts at i (i - 1: no run)
WordRunEnd(t, i) ==
    Min({k \in i..(Len(t) + 1) : k > Len(t) \/ ~IsWordChar(t[k])}) - 1

\* the end of the longest run of \s characters that starts at i (i - 1: no run)
SpaceRunEnd(t, i) ==
    Min({k \in i..(Len(t) + 1) : k > Len(t) \/ ~IsSpaceChar(t[k])}) - 1

\* /on\w+\s*=/i at position i: the position of the closing '=', or 0 for no match.
\* '=' and white space are no word characters and '=' is no white space, so
\* backtracking out of the greedy \w+ or \s* never finds another match.
HandlerMatchEnd(t, i) ==
    IF /\ i + 1 <= Len(t)
       /\ LowerChar(t[i]) = "o"
       /\ LowerChar(t[i + 1]) = "n"
    THEN LET w == WordRunEnd(t, i + 2)
             s == SpaceRunEnd(t, w + 1)
         IN  IF w >= i + 2 /\ s + 1 <= Len(t) /\ t[s + 1] = "="
             THEN s + 1
             ELSE 0
    ELSE 0

\* .replace(/on\w+\s*=/gi, ''), as for javascript:
RECURSIVE StripHandlersFrom(_, _)
StripHandlersFrom(t, i) ==
    LET starts == {k \in i..Len(t) : HandlerMatchEnd(t, k) # 0} IN
    IF starts = {} THEN SubSeq(t, i, Len(t))
    ELSE SubSeq(t, i, Min(starts) - 1)
            \o StripHandlersFrom(t, HandlerMatchEnd(t, Min(starts)) + 1)

StripHandlers(t) == StripHandlersFrom(t, 1)

sanitizeText(t) == Trim(StripHandlers(StripJavascript(StripAngles(t))))

-----------------------------------------------------------------------------
(* Field rules: register('name' | 'email' | 'story', {...}) *)

NameMinLength == 2
NameMaxLength == 100
StoryMinLength == 10
StoryMaxLength == 5000
TldMinLength == 2

NoError == ""
MsgNameRequired == "Name is required"
MsgNameMin == "Name must be at least 2 characters"
MsgNameMax == "Name must be less than 100 characters"
MsgEmailRequired == "Email is required"
MsgEmailPattern == "Please enter a valid email address"
MsgStoryRequired == "Story is required"
MsgStoryMin == "Story must be at least 10 characters"
MsgStoryMax == "Story must be less than 5000 characters"

\* [A-Z0-9._%+-] under the i flag
IsLocalChar(c) == IsLetter(c) \/ c \in Digits \/ c \in {".", "_", "%", "+", "-"}

\* [A-Z0-9.-] under the i flag
IsDomainChar(c) == IsLetter(c) \/ c \in Digits \/ c \in {".", "-"}

\* /^[A-Z0-9._%+-]+@[A-Z0-9.-]+\.[A-Z]{2,}$/i
EmailPatternMatches(e) ==
    \E at \in 2..Len(e) :
        /\ e[at] = "@"
        /\ \A k \in 1..(at - 1) : IsLocalChar(e[k])
        /\ \E dot \in (at + 2)..Len(e) :
              /\ e[dot] = "."
              /\ \A k \in (at + 1)..(dot - 1) : IsDomainChar(e[k])
              /\ Len(e) - dot >= TldMinLength
              /\ \A k \in (dot + 1)..Len(e) : IsLetter(e[k])

\* the first failing rule of a text field: required, then maxLength / minLength
LengthRuleError(v, min, max, msgRequired, msgMin, msgMax) ==
    IF v = << >> THEN msgRequired
    ELSE IF Len(v) > max THEN msgMax
    ELSE IF Len(v) < min THEN msgMin
    ELSE NoError

\* mutant of NameError: the minLength rule is left out
NameErrorNoMin(v) ==
    IF v = << >> THEN MsgNameRequired
    ELSE IF Len(v) > NameMaxLength THEN MsgNameMax
    ELSE NoError

NameError(v) ==
    LengthRuleError(v, NameMinLength, NameMaxLength,
                    MsgNameRequired, MsgNameMin, MsgNameMax)

EmailError(v) ==
    IF v = << >> THEN MsgEmailRequired
    ELSE IF ~EmailPatternMatches(v) THEN MsgEmailPattern
    ELSE NoError

\* mutant of StoryError: a story of exactly maxLength characters is refused
StoryErrorExclusiveMax(v) ==
    IF v = << >> THEN MsgStoryRequired
    ELSE IF Len(v) >= StoryMaxLength THEN MsgStoryMax
    ELSE IF Len(v) < StoryMinLength THEN MsgStoryMin
    ELSE NoError

StoryError(v) ==
    LengthRuleError(v, StoryMinLength, StoryMaxLength,
                    MsgStoryRequired, MsgStoryMin, MsgStoryMax)

FieldError(field, v) ==
    CASE field = "name" -> NameError(v)
      [] field = "email" -> EmailError(v)
      [] field = "story" -> StoryError(v)

\* the error map handleSubmit builds from the registered rules
Validate(f) == [field \in {"name", "email", "story"} |-> FieldError(field, f[field])]

NoErrors == [field \in {"name", "email", "story"} |-> NoError]

-----------------------------------------------------------------------------
(* Files *)

\* the MIME type of each file the user can pick
FileType(f) ==
    CASE f = "a.png" -> <<"i","m","a","g","e","/","p","n","g">>
      [] f = "b.jpg" -> <<"i","m","a","g","e","/","j","p","e","g">>
      [] f = "c.pdf" -> <<"a","p","p","l","i","c","a","t","i","o","n","/","p","d","f">>

ImagePrefix == <<"i","m","a","g","e","/">>

\* String.prototype.startsWith
StartsWith(t, prefix) ==
    /\ Len(prefix) <= Len(t)
    /\ \A k \in DOMAIN prefix : t[k] = prefix[k]

\* file => file.type.startsWith('image/')
IsImageFile(f) == StartsWith(FileType(f), ImagePrefix)

\* mutant of ImageFiles: the filter on the MIME type is left out
ImageFilesUnfiltered(files) == files

\* files.filter(file => file.type.startsWith('image/'))
ImageFiles(files) == SelectSeq(files, IsImageFile)

\* An attachment is identified by the file it came from: the File itself
\* (netlify) or the descriptor result.image the endpoint returned for it
\* (cloudflare).

\* mutant of RemoveAt: the index is taken to count from 1
RemoveAtOneBased(list, index) ==
    IF index \in 1..Len(list)
    THEN [k \in 1..(Len(list) - 1) |-> IF k < index THEN list[k] ELSE list[k + 1]]
    ELSE list

\* array.filter((_, i) => i !== index), index 0-based
RemoveAt(list, index) ==
    [k \in 1..(Len(list) - (IF index \in 0..(Len(list) - 1) THEN 1 ELSE 0)) |->
        IF k <= index THEN list[k] ELSE list[k + 1]]

-----------------------------------------------------------------------------
(* Bounds and inputs *)

\* the attachment list and the uploads in flight hold at most MaxImages files
MaxImages == 2
\* at most MaxBatches handleFiles calls await their uploads at a time
MaxBatches == 2

Variants == {"cloudflare", "netlify"}

\* the lists of files a drop or a browse delivers
Selections ==
    { <<"c.pdf">>,
      <<"a.png">>,
      <<"a.png", "c.pdf", "b.jpg">> }

\* how one upload can end: result.image (ok), !response.ok (http_error),
\* {success: false} (success_false), fetch rejects (network_error)
UploadOutcomes == {"ok", "http_error", "success_false", "network_error"}

ValidName == <<"A","l">>
ValidEmail == <<"a","@","b",".","c","o">>
ValidStory == <<"O","n","c","e"," ","u","p","o","n","!">>

ValidForm == [name |-> ValidName, email |-> ValidEmail, story |-> ValidStory]

-----------------------------------------------------------------------------
(* State *)

MsgNone == ""
MsgSuccess == "Story submitted successfully! Thank you for sharing."
MsgSubmitError == "Error submitting story. Please try again."
MsgUploadError == "Error uploading images. Please try again."

\* useForm() without defaultValues; also what reset() restores
BlankForm == [name |-> << >>, email |-> << >>, story |-> << >>]

NoPayload == [name |-> << >>, email |-> << >>, story |-> << >>, images |-> << >>]

\* posts counts the POSTs to the submission endpoint of the latest onSubmit call
IdleSubmit == [stage |-> "idle", payload |-> NoPayload, posts |-> 0]

NoBatch == [files |-> << >>, uploads |-> << >>, last |-> 0]

Init ==
    /\ variant \in Variants
    /\ form = BlankForm
    /\ images = << >>
    /\ errors = NoErrors
    /\ isSubmitted = FALSE
    /\ isSubmitting = FALSE
    /\ submitMessage = MsgNone
    /\ uploadedImages = << >>
    /\ uploadingImages = FALSE
    /\ batches = << >>
    /\ submit = IdleSubmit
    /\ lastFiles = << >>
    /\ joined = NoBatch

-----------------------------------------------------------------------------
(* Input Collector *)

\* what the user types into the fields
FormInputs == {BlankForm, ValidForm}

\* the user edits the registered fields; after a submit attempt a field is
\* validated again when it changes (reValidateMode onChange), which keeps
\* errors = Validate(form)
EditForm(f) ==
    /\ f # form
    /\ form' = f
    /\ errors' = IF isSubmitted THEN Validate(f) ELSE errors
    /\ UNCHANGED <<variant, images, isSubmitted, isSubmitting, submitMessage,
                   uploadedImages, uploadingImages, batches, submit, lastFiles, joined>>

-----------------------------------------------------------------------------
(* Attachment Manager *)

Sum(f) ==
    LET RECURSIVE Acc(_)
        Acc(n) == IF n = 0 THEN 0 ELSE f[n] + Acc(n - 1)
    IN  Acc(Len(f))

\* the files whose upload has not been joined yet
InFlightFiles == Sum([b \in DOMAIN batches |-> Len(batches[b].files)])

\* mutant of SuccessfulUploads: the results are taken last file first
SuccessfulUploadsReversed(files, uploads) ==
    LET RECURSIVE From(_)
        From(k) ==
            IF k = 0 THEN << >>
            ELSE (IF uploads[k] = "image" THEN <<files[k]>> ELSE << >>) \o From(k - 1)
    IN  From(Len(files))

\* mutant of SuccessfulUploads: the null results are not filtered out
SuccessfulUploadsUnfiltered(files, uploads) == files

\* uploadedImageResults.filter(result => result !== null), as the files they
\* came from, in the order of the input
SuccessfulUploads(files, uploads) ==
    LET RECURSIVE From(_)
        From(k) ==
            IF k > Len(files) THEN << >>
            ELSE (IF uploads[k] = "image" THEN <<files[k]>> ELSE << >>) \o From(k + 1)
    IN  From(1)

\* setUploadedImages(prev => [...prev, ...successfulUploads])
AppendUploads(prev, successfulUploads) == prev \o successfulUploads

\* setValue('images', [...uploadedImages, ...successfulUploads]): uploadedImages
\* is the list of the render in which handleFiles was called
FormImagesAfterUpload(captured, successfulUploads) == captured \o successfulUploads

\* handleFiles, part_000, up to await Promise.all(uploadPromises)
handleFilesUpload(files) ==
    /\ variant = "cloudflare"
    /\ lastFiles' = files
    /\ LET imageFiles == ImageFiles(files) IN
       IF Len(imageFiles) > 0
       THEN /\ Len(batches) < MaxBatches
            /\ Len(uploadedImages) + InFlightFiles + Len(imageFiles) <= MaxImages
            /\ uploadingImages' = TRUE
            /\ batches' = Append(batches,
                  [files |-> imageFiles,
                   uploads |-> [k \in DOMAIN imageFiles |-> "pending"],
                   captured |-> uploadedImages])
       ELSE UNCHANGED <<uploadingImages, batches>>
    /\ UNCHANGED <<variant, form, images, errors, isSubmitted, isSubmitting,
                   submitMessage, uploadedImages, submit, joined>>

\* what uploadImageToCloudflare resolves to
UploadResult(outcome) == IF outcome = "ok" THEN "image" ELSE "null"

\* handleFiles, part_000, after await Promise.all: no upload promise rejects
\* (uploadImageToCloudflare catches), so the catch block never runs
JoinBatch(b, uploads) ==
    LET batch == batches[b]
        successfulUploads == SuccessfulUploads(batch.files, uploads)
    IN  /\ uploadedImages' = AppendUploads(uploadedImages, successfulUploads)
        /\ images' = FormImagesAfterUpload(batch.captured, successfulUploads)
        /\ uploadingImages' = FALSE
        /\ batches' = [k \in 1..(Len(batches) - 1) |->
                          IF k < b THEN batches[k] ELSE batches[k + 1]]
        /\ joined' = [files |-> batch.files, uploads |-> uploads,
                       last |-> CHOOSE k \in DOMAIN batch.uploads :
                                   batch.uploads[k] = "pending"]
        /\ UNCHANGED submitMessage

\* one upload of batch b settles (uploadImageToCloudflare returns); when it is
\* the last of its batch, Promise.all resolves and handleFiles runs on
UploadSettles(b, i, outcome) ==
    /\ b \in DOMAIN batches
    /\ i \in DOMAIN batches[b].uploads
    /\ batches[b].uploads[i] = "pending"
    /\ LET uploads == [batches[b].uploads EXCEPT ![i] = UploadResult(outcome)] IN
       IF \E k \in DOMAIN uploads : uploads[k] = "pending"
       THEN /\ batches' = [batches EXCEPT ![b].uploads = uploads]
            /\ UNCHANGED <<images, uploadedImages, uploadingImages, submitMessage, joined>>
       ELSE JoinBatch(b, uploads)
    /\ UNCHANGED <<variant, form, errors, isSubmitted, isSubmitting, submit, lastFiles>>

\* handleFiles, StoryCollectionApp.tsx: the files are buffered
handleFilesBuffer(files) ==
    /\ variant = "netlify"
    /\ lastFiles' = files
    /\ LET imageFiles == ImageFiles(files) IN
       IF Len(imageFiles) > 0
       THEN /\ Len(uploadedImages) + Len(imageFiles) <= MaxImages
            /\ uploadedImages' = uploadedImages \o imageFiles
            /\ images' = uploadedImages \o imageFiles
       ELSE UNCHANGED <<uploadedImages, images>>
    /\ UNCHANGED <<variant, form, errors, isSubmitted, isSubmitting, submitMessage,
                   uploadingImages, batches, submit, joined>>

\* removeImage (part_000) / removeFile (StoryCollectionApp.tsx); index is 0-based
removeImage(index) ==
    /\ LET newImages == RemoveAt(uploadedImages, index) IN
          /\ uploadedImages' = newImages
          /\ images' = newImages
    /\ UNCHANGED <<variant, form, errors, isSubmitted, isSubmitting, submitMessage,
                   uploadingImages, batches, submit, lastFiles, joined>>

-----------------------------------------------------------------------------
(* Submission Orchestrator *)

\* how await fetch(...) and await response.json() can end, and how the
\* FileReader conversions of Promise.all(base64Promises) can end
FetchOutcomes == {"ok", "not_ok", "throws"}
JsonOutcomes == {"ok", "throws"}
EncodeOutcomes == {"ok", "error"}

\* sanitizedData and the images of the request body
Payload(data, attachments) ==
    [name |-> sanitizeText(data.name),
     email |-> ToLowerCase(Trim(data.email)),
     story |-> sanitizeText(data.story),
     images |-> attachments]

\* onSubmit up to its first await.  part_000 issues the POST at once; the
\* netlify variant first awaits the base64 conversion of a non-empty list.
onSubmit(data) ==
    /\ isSubmitting' = TRUE
    /\ submitMessage' = MsgNone
    /\ submit' =
          IF variant = "netlify" /\ Len(uploadedImages) > 0
          THEN [stage |-> "encoding", payload |-> Payload(data, uploadedImages),
                posts |-> 0]
          ELSE [stage |-> "fetch", payload |-> Payload(data, uploadedImages),
                posts |-> 1]

\* handleSubmit(onSubmit): validate, then call onSubmit with the form values;
\* message is submitMessage as the event's earlier handlers left it
handleSubmit(message) ==
    /\ isSubmitted' = TRUE
    /\ LET fieldErrors == Validate(form) IN
       IF fieldErrors # NoErrors
       THEN /\ errors' = fieldErrors
            /\ submitMessage' = message
            /\ UNCHANGED <<isSubmitting, submit>>
       ELSE /\ errors' = NoErrors
            /\ onSubmit(form)
    /\ UNCHANGED <<variant, form, images, uploadedImages, uploadingImages, batches,
                   lastFiles, joined>>

\* mutant of SubmitDisabled: isSubmitting does not disable the button
SubmitDisabledWhileUploadingOnly == variant = "cloudflare" /\ uploadingImages

\* disabled={isSubmitting || uploadingImages} / disabled={isSubmitting}
SubmitDisabled ==
    IF variant = "cloudflare" THEN isSubmitting \/ uploadingImages ELSE isSubmitting

\* the submit button is pressed
ClickSubmit ==
    /\ ~SubmitDisabled
    /\ handleSubmit(submitMessage)

\* the delete button of the notification.  In part_000 it is a button without
\* a type inside the form, hence a submit button: after its onClick the form's
\* submit handler runs.  The netlify variant has no form element.
DismissMessage ==
    /\ submitMessage # MsgNone
    /\ IF variant = "cloudflare"
       THEN handleSubmit(MsgNone)
       ELSE /\ submitMessage' = MsgNone
            /\ UNCHANGED <<variant, form, images, errors, isSubmitted, isSubmitting,
                           uploadedImages, uploadingImages, batches, submit,
                           lastFiles, joined>>

\* mutant of SubmitSucceeds: setUploadedImages([]) is left out
SubmitSucceedsKeepsImages ==
    /\ submitMessage' = MsgSuccess
    /\ form' = BlankForm
    /\ images' = << >>
    /\ errors' = NoErrors
    /\ isSubmitted' = FALSE
    /\ UNCHANGED uploadedImages

\* the try block after await response.json(): success message and full reset
SubmitSucceeds ==
    /\ submitMessage' = MsgSuccess
    /\ form' = BlankForm
    /\ images' = << >>
    /\ errors' = NoErrors
    /\ isSubmitted' = FALSE
    /\ uploadedImages' = << >>

\* mutant of SubmitFails: the catch block resets the form as the try block does
SubmitFailsAndResets ==
    /\ submitMessage' = MsgSubmitError
    /\ form' = BlankForm
    /\ images' = << >>
    /\ errors' = NoErrors
    /\ isSubmitted' = FALSE
    /\ UNCHANGED uploadedImages

\* the catch block
SubmitFails ==
    /\ submitMessage' = MsgSubmitError
    /\ UNCHANGED <<form, images, errors, isSubmitted, uploadedImages>>

\* mutant of SubmitFinally: setIsSubmitting(false) is left out
SubmitFinallyKeepsFlag ==
    /\ UNCHANGED isSubmitting
    /\ submit' = [stage |-> "idle", payload |-> NoPayload, posts |-> submit.posts]

\* the finally block
SubmitFinally ==
    /\ isSubmitting' = FALSE
    /\ submit' = [stage |-> "idle", payload |-> NoPayload, posts |-> submit.posts]

\* netlify: Promise.all(base64Promises) settles; fulfilled, the POST is issued
EncodeSettles(outcome) ==
    /\ submit.stage = "encoding"
    /\ IF outcome = "ok"
       THEN /\ submit' = [submit EXCEPT !.stage = "fetch", !.posts = @ + 1]
            /\ UNCHANGED <<form, images, errors, isSubmitted, isSubmitting,
                           submitMessage, uploadedImages>>
       ELSE SubmitFails /\ SubmitFinally
    /\ UNCHANGED <<variant, uploadingImages, batches, lastFiles, joined>>

\* await fetch(...) settles
FetchSettles(outcome) ==
    /\ submit.stage = "fetch"
    /\ IF outcome = "ok"
       THEN /\ submit' = [submit EXCEPT !.stage = "json"]
            /\ UNCHANGED <<form, images, errors, isSubmitted, isSubmitting,
                           submitMessage, uploadedImages>>
       ELSE SubmitFails /\ SubmitFinally
    /\ UNCHANGED <<variant, uploadingImages, batches, lastFiles, joined>>

\* await response.json() settles
JsonSettles(outcome) ==
    /\ submit.stage = "json"
    /\ IF outcome = "ok" THEN SubmitSucceeds ELSE SubmitFails
    /\ SubmitFinally
    /\ UNCHANGED <<variant, uploadingImages, batches, lastFiles, joined>>

-----------------------------------------------------------------------------
(* Specification *)

Next ==
    \/ \E f \in FormInputs : EditForm(f)
    \/ \E files \in Selections : handleFilesUpload(files)
    \/ \E files \in Selections : handleFilesBuffer(files)
    \/ \E b \in DOMAIN batches : \E i \in DOMAIN batches[b].uploads :
          \E outcome \in UploadOutcomes : UploadSettles(b, i, outcome)
    \/ \E index \in 0..Len(uploadedImages) : removeImage(index)
    \/ ClickSubmit
    \/ DismissMessage
    \/ \E outcome \in EncodeOutcomes : EncodeSettles(outcome)
    \/ \E outcome \in FetchOutcomes : FetchSettles(outcome)
    \/ \E outcome \in JsonOutcomes : JsonSettles(outcome)

Spec == Init /\ [][Next]_vars

-----------------------------------------------------------------------------
(* The submit path on its own: the actions of a submission, from a form the  *)
(* user has filled in and with zero or one attachment retained.              *)

NextSubmit ==
    \/ ClickSubmit
    \/ DismissMessage
    \/ \E outcome \in EncodeOutcomes : EncodeSettles(outcome)
    \/ \E outcome \in FetchOutcomes : FetchSettles(outcome)
    \/ \E outcome \in JsonOutcomes : JsonSettles(outcome)

InitFilled(forms) ==
    /\ variant \in Variants
    /\ form \in forms
    /\ uploadedImages \in {<< >>, <<"a.png">>}
    /\ images = uploadedImages
    /\ errors = NoErrors
    /\ isSubmitted = FALSE
    /\ isSubmitting = FALSE
    /\ submitMessage = MsgNone
    /\ uploadingImages = FALSE
    /\ batches = << >>
    /\ submit = IdleSubmit
    /\ lastFiles = IF uploadedImages = << >> THEN << >> ELSE <<"a.png">>
    /\ joined = IF variant = "cloudflare" /\ uploadedImages # << >>
                THEN [files |-> <<"a.png">>, uploads |-> <<"image">>, last |-> 1]
                ELSE NoBatch

\* n times the character c
Rep(c, n) == [k \in 1..n |-> c]

\* field values around every limit of the rules
NameSamples == {Rep("x", n) : n \in {0, 1, 2, 100, 101}}

StorySamples == {Rep("x", n) : n \in {0, 9, 10, 5000, 5001}}

EmailSamples ==
    { << >>,
      <<"a","@","b",".","c","o">>,
      <<"A",".","b","+","1","@","D","-","e",".","O","r","g">>,
      <<"a","b",".","c","o">>,
      <<"a","@","b">>,
      <<"a","@","b",".","c">>,
      <<"a","@","b",".","c","0">>,
      <<"a"," ","b","@","c",".","d","e">>,
      <<"@","b",".","c","o">>,
      <<"a","@","@","b",".","c","o">>,
      <<" ","a","@","b",".","c","o">> }

FormSamples ==
    {[name |-> n, email |-> e, story |-> s] :
        n \in NameSamples, e \in EmailSamples, s \in StorySamples}

InitForm == InitFilled(FormSamples)

SpecForm == InitForm /\ [][NextSubmit]_vars

\* texts built from at most MaxPieces of these pieces
MaxPieces == 3

Pieces ==
    { <<"<","b",">">>,
      <<" ">>,
      <<"j","a","v","a">>,
      <<"s","c","r","i","p","t",":">>,
      <<"J","a","v","a","S","c","r","i","p","t",":">>,
      <<"o">>,
      <<"o","n","x","=">>,
      <<"n","x"," ","=">> }

RECURSIVE Texts(_)
Texts(n) ==
    IF n = 0 THEN {<< >>}
    ELSE Texts(n - 1) \cup {t \o p : t \in Texts(n - 1), p \in Pieces}

StoryIntro == <<"M","y"," ","s","t","o","r","y",":"," ">>

TextForms ==
    {[name |-> t, email |-> ValidEmail, story |-> StoryIntro \o t] :
        t \in Texts(MaxPieces)}

InitText == InitFilled(TextForms)

SpecText == InitText /\ [][NextSubmit]_vars

-----------------------------------------------------------------------------
(* Claims *)

\* a handleFiles call finished its uploads in this step (Promise.all resolved)
BatchJoins == Len(batches') < Len(batches)

\* C1: in every reachable state the form value 'images' equals the attachment
\* list (uploadedImages / uploadedFiles).
C1_ImagesInSync == images = uploadedImages

Succeeded(batch) == {k \in DOMAIN batch.uploads : batch.uploads[k] = "image"}

\* C3: when the uploads of a batch have all settled, the attachment list grows
\* by exactly the images whose upload succeeded: every one of them is appended
\* after the entries already there, and nothing is added for an upload that
\* failed, whichever way it failed.
C3_SuccessfulUploadsKept ==
    [][BatchJoins =>
       \A b \in DOMAIN batches : \A i \in DOMAIN batches[b].uploads :
         \A outcome \in UploadOutcomes :
            UploadSettles(b, i, outcome) =>
                LET n == Len(uploadedImages)
                    ok == Succeeded(joined')
                IN  /\ (i \in ok) <=> (outcome = "ok")
                    /\ \A k \in DOMAIN batches[b].uploads :
                          k # i => ((k \in ok) <=> (batches[b].uploads[k] = "image"))
                    /\ joined'.files = batches[b].files
                    /\ Len(uploadedImages') = n + Cardinality(ok)
                    /\ SubSeq(uploadedImages', 1, n) = uploadedImages
                    /\ {uploadedImages'[n + m] : m \in 1..Cardinality(ok)}
                          = {joined'.files[k] : k \in ok}]_vars

\* a batch of two joined with one upload failed: only the other one is retained
C3_Witness ==
    /\ batches = << >>
    /\ Len(joined.files) = 2
    /\ \E k \in 1..2 :
          /\ joined.uploads[k] = "image"
          /\ joined.uploads[3 - k] = "null"
          /\ uploadedImages = <<joined.files[k]>>

\* C4: when an upload of a batch fails, submitMessage is the upload-error text
\* once the batch has joined.
C4_FailedUploadSetsMessage ==
    [][(BatchJoins /\ \E k \in DOMAIN joined'.uploads : joined'.uploads[k] = "null")
          => submitMessage' = MsgUploadError]_vars

\* C5: no file whose type does not start with 'image/' is uploaded or retained;
\* a handleFiles call takes exactly the image files of its argument, in order,
\* and with no image file in the argument it changes neither the attachment
\* list, nor the form value, nor the uploading flag, nor the uploads in flight.
C5_Retained ==
    Range(uploadedImages) \cup Range(images)
        \cup UNION {Range(batches[b].files) \cup Range(batches[b].captured) :
                      b \in DOMAIN batches}

C5_TypeIsImage(f) == SubSeq(FileType(f), 1, 6) = <<"i","m","a","g","e","/">>

C5_OnlyImagesTaken ==
    /\ [](\A f \in C5_Retained : C5_TypeIsImage(f))
    /\ [][\A files \in Selections :
            LET taken == SelectSeq(files, C5_TypeIsImage) IN
            /\ handleFilesUpload(files) =>
                  IF taken = << >>
                  THEN UNCHANGED <<uploadedImages, images, uploadingImages, batches>>
                  ELSE /\ batches'[Len(batches')].files = taken
                       /\ Len(batches') = Len(batches) + 1
            /\ handleFilesBuffer(files) =>
                  IF taken = << >>
                  THEN UNCHANGED <<uploadedImages, images, uploadingImages, batches>>
                  ELSE uploadedImages' = uploadedImages \o taken]_vars

\* three files dropped, one of them no image: the two images are retained
C5_Witness ==
    /\ lastFiles = <<"a.png", "c.pdf", "b.jpg">>
    /\ uploadedImages = <<"a.png", "b.jpg">>
    /\ images = <<"a.png", "b.jpg">>

\* handleSubmit(onSubmit) runs in this step: the submit button is pressed, or,
\* in part_000, the delete button of the notification
SubmitAttempt == ClickSubmit \/ (variant = "cloudflare" /\ DismissMessage)

\* the onSubmit call in flight ends in this step
AttemptEnds == submit.stage # "idle" /\ submit'.stage = "idle"

C6_NameFails(n) == Len(n) = 0 \/ Len(n) < 2 \/ Len(n) > 100

C6_EmailFails(e) == Len(e) = 0 \/ ~EmailPatternMatches(e)

\* C6: a submit attempt with a name that is missing, shorter than 2 or longer
\* than 100 characters, or an email that is missing or does not match the
\* pattern, does not enter onSubmit: no POST is issued, isSubmitting stays
\* false, and the error map holds the message of the rule that failed.
C6_InvalidSubmitBlocked ==
    [][(SubmitAttempt /\ (C6_NameFails(form.name) \/ C6_EmailFails(form.email)))
          => /\ submit' = submit /\ submit.stage = "idle"
             /\ ~isSubmitting /\ ~isSubmitting'
             /\ Len(form.name) = 0 => errors'.name = MsgNameRequired
             /\ Len(form.name) = 1 => errors'.name = MsgNameMin
             /\ Len(form.name) > 100 => errors'.name = MsgNameMax
             /\ Len(form.email) = 0 => errors'.email = MsgEmailRequired
             /\ (Len(form.email) > 0 /\ ~EmailPatternMatches(form.email))
                   => errors'.email = MsgEmailPattern]_vars

\* a one-character name and an email without a top-level domain were refused
C6_Witness ==
    /\ isSubmitted
    /\ Len(form.name) = 1
    /\ form.email = <<"a","@","b">>
    /\ errors.name = MsgNameMin
    /\ errors.email = MsgEmailPattern
    /\ submit = IdleSubmit
    /\ ~isSubmitting

C7_FieldsPass(f) ==
    /\ Len(f.story) >= 10 /\ Len(f.story) <= 5000
    /\ ~C6_NameFails(f.name)
    /\ ~C6_EmailFails(f.email)

\* C7 as claimed: every submit attempt whose fields pass their rules issues the
\* POST, so no onSubmit call ends without having issued it.
C7_EveryAttemptPosts == [][AttemptEnds => submit'.posts >= 1]_vars

\* C7 as amended: a submit attempt whose fields pass their rules enters
\* onSubmit; the POST is issued at once in part_000 and, in the netlify variant,
\* when no file is attached; with files attached the netlify variant issues it
\* when the base64 conversion of the files has succeeded, and when a conversion
\* fails the call ends with the generic error message and without a POST.  An
\* onSubmit call ends without a POST in that case only.
C7_PostUnlessEncodingFails ==
    [][/\ (SubmitAttempt /\ C7_FieldsPass(form)) =>
             IF variant = "cloudflare" \/ uploadedImages = << >>
             THEN submit'.stage = "fetch" /\ submit'.posts = 1
             ELSE submit'.stage = "encoding" /\ submit'.posts = 0
       /\ (submit.stage = "encoding" /\ submit'.stage # "encoding") =>
             \/ submit'.stage = "fetch" /\ submit'.posts = 1
             \/ /\ submit'.stage = "idle" /\ submit'.posts = 0
                /\ submitMessage' = MsgSubmitError
       /\ (AttemptEnds /\ submit'.posts = 0) =>
             variant = "netlify" /\ submit.stage = "encoding"]_vars

\* a story of 5000 characters with a file attached: the netlify variant has
\* issued the POST after the conversion
C7_Witness ==
    /\ variant = "netlify"
    /\ Len(form.story) = 5000
    /\ submit.stage = "fetch"
    /\ submit.posts = 1
    /\ submit.payload.images # << >>

\* C8: sanitizeText is idempotent on the name and the story it was applied to.
C8_SanitizeIdempotent ==
    submit.stage # "idle" =>
        /\ sanitizeText(submit.payload.name) = submit.payload.name
        /\ sanitizeText(submit.payload.story) = submit.payload.story

\* the onSubmit call in flight fails in this step: fetch rejects or answers with
\* a status that is not ok, response.json() rejects, or a conversion fails
SubmissionFails ==
    \/ \E outcome \in {"not_ok", "throws"} : FetchSettles(outcome)
    \/ JsonSettles("throws")
    \/ EncodeSettles("error")

\* C9: a failed submission sets the generic error message and leaves the form
\* fields, the form value 'images' and the attachment list as they are; only a
\* successful submission empties form and attachment list in one step.
C9_FailureKeepsState ==
    [][/\ SubmissionFails =>
             /\ submitMessage' = MsgSubmitError
             /\ form' = form
             /\ images' = images
             /\ uploadedImages' = uploadedImages
       /\ (AttemptEnds /\ (form' # form \/ uploadedImages' # uploadedImages)) =>
             submitMessage' = MsgSuccess]_vars

\* a submission failed with the form filled in and an image attached
C9_Witness ==
    /\ submitMessage = MsgSubmitError
    /\ submit.stage = "idle" /\ submit.posts = 1
    /\ form = ValidForm
    /\ uploadedImages # << >>
    /\ images = uploadedImages

\* C10: isSubmitting is true exactly while an onSubmit call is in flight; the
\* step that ends the call sets isSubmitting to false and submitMessage to the
\* success or the error message; a call issues at most one POST.
C10_SubmitStateMachine ==
    /\ [](isSubmitting <=> submit.stage # "idle")
    /\ [](submit.posts <= 1)
    /\ [][AttemptEnds =>
             /\ ~isSubmitting'
             /\ submitMessage' \in {MsgSuccess, MsgSubmitError}]_vars
    /\ [][submit'.posts > submit.posts =>
             submit.posts = 0 /\ submit'.stage = "fetch"]_vars

\* a submission went through fetch and response.json() and is idle again
C10_Witness ==
    /\ ~isSubmitting
    /\ submit.stage = "idle"
    /\ submit.posts = 1
    /\ submitMessage = MsgSuccess

\* the text holds '<' or '>'
C11_HasAngle(t) == \E k \in DOMAIN t : t[k] \in {"<", ">"}

\* the text holds 'javascript:' in some letter case
C11_HasJavascript(t) ==
    \E k \in 1..(Len(t) - 10) :
        ToLowerCase(SubSeq(t, k, k + 10)) = <<"j","a","v","a","s","c","r","i","p","t",":">>

\* the text holds 'on' in some letter case, one or more word characters, any
\* white space and '='
C11_HasHandler(t) ==
    \E i \in DOMAIN t : \E j \in DOMAIN t : \E k \in DOMAIN t :
        /\ i + 2 <= j /\ j < k
        /\ ToLowerCase(SubSeq(t, i, i + 1)) = <<"o","n">>
        /\ \A m \in (i + 2)..j : IsWordChar(t[m])
        /\ \A m \in (j + 1)..(k - 1) : IsSpaceChar(t[m])
        /\ t[k] = "="

C11_Clean(t) == ~C11_HasAngle(t) /\ ~C11_HasJavascript(t) /\ ~C11_HasHandler(t)

\* C11: the name and the story of the payload hold no '<' or '>', no
\* 'javascript:' in any letter case and no text of the form on<word
\* characters><white space>=.
C11_PayloadClean ==
    submit.stage # "idle" =>
        /\ C11_Clean(submit.payload.name)
        /\ C11_Clean(submit.payload.story)

\* the part of C11 that does hold: no '<' and no '>' in the payload
C11_NoAngles ==
    submit.stage # "idle" =>
        /\ ~C11_HasAngle(submit.payload.name)
        /\ ~C11_HasAngle(submit.payload.story)

\* the files of a joined batch whose upload succeeded, in the order of the input
RECURSIVE C12_InInputOrder(_, _)
C12_InInputOrder(batch, k) ==
    IF k > Len(batch.files) THEN << >>
    ELSE IF batch.uploads[k] = "image"
         THEN <<batch.files[k]>> \o C12_InInputOrder(batch, k + 1)
         ELSE C12_InInputOrder(batch, k + 1)

\* C12: a handleFiles call starts all its uploads in one step; the attachment
\* list does not change while an upload of the batch is pending; the step in
\* which the last upload settles, whichever upload that is, appends the batch's
\* successful results after the existing entries in the order of the input
\* files.
C12_BatchJoinedInOrder ==
    [][/\ Len(batches') > Len(batches) =>
             /\ \A k \in DOMAIN batches'[Len(batches')].uploads :
                    batches'[Len(batches')].uploads[k] = "pending"
             /\ Len(batches'[Len(batches')].uploads) = Len(batches'[Len(batches')].files)
             /\ uploadedImages' = uploadedImages
       /\ (Len(batches') = Len(batches) /\ batches' # batches) =>
             /\ uploadedImages' = uploadedImages
             /\ \A b \in DOMAIN batches :
                    \E k \in DOMAIN batches'[b].uploads :
                       batches'[b].uploads[k] = "pending"
       /\ BatchJoins =>
             /\ joined'.uploads[joined'.last] # "pending"
             /\ uploadedImages' = uploadedImages \o C12_InInputOrder(joined', 1)]_vars

\* two images were uploaded in one batch, the upload of the second file settled
\* first, and the list holds them first file first
C12_Witness ==
    /\ Len(joined.files) = 2
    /\ joined.files[1] # joined.files[2]
    /\ joined.uploads = <<"image", "image">>
    /\ joined.last = 1
    /\ uploadedImages = joined.files

\* C13: removeImage(index) with 0 <= index < length takes the entry at position
\* index (counted from 0) out of the attachment list and keeps the others in
\* their order; with an index outside the list the list stays as it is; either
\* way the form value 'images' is set to the resulting list.
C13_RemoveImage ==
    [][\A index \in 0..Len(uploadedImages) :
          removeImage(index) =>
             LET n == Len(uploadedImages) IN
             /\ images' = uploadedImages'
             /\ IF index < n
                THEN /\ Len(uploadedImages') = n - 1
                     /\ \A k \in 1..index : uploadedImages'[k] = uploadedImages[k]
                     /\ \A k \in (index + 1)..(n - 1) :
                            uploadedImages'[k] = uploadedImages[k + 1]
                ELSE uploadedImages' = uploadedImages]_vars

\* of the two images of one drop the first was removed: the second one is left,
\* in the list and in the form value
C13_Witness ==
    /\ lastFiles = <<"a.png", "c.pdf", "b.jpg">>
    /\ uploadedImages = <<"b.jpg">>
    /\ images = <<"b.jpg">>
    /\ batches = << >>

\* an upload is in flight: uploadImageToCloudflare was called and has not returned
C14_UploadInFlight ==
    \E b \in DOMAIN batches : \E k \in DOMAIN batches[b].uploads :
        batches[b].uploads[k] = "pending"

\* C14: uploadingImages is true in every state in which an upload is in flight.
C14_FlagWhileUploading == C14_UploadInFlight => uploadingImages

\* what C14 derives from the flag: no onSubmit call starts while an upload is
\* in flight (its payload would miss the image).  It fails with the flag.
C14_NoSubmitWhileUploading ==
    [][(submit.stage = "idle" /\ submit'.stage # "idle") => ~C14_UploadInFlight]_vars

\* C15: an onSubmit call starts only when none is in flight, in both variants:
\* while one is in flight isSubmitting is true, the submit button is disabled
\* and no notification (with its delete button) is shown; so the POST of a call
\* is issued only when no other POST is in flight.
C15_OnePostInFlight ==
    /\ [](submit.stage # "idle" =>
            isSubmitting /\ SubmitDisabled /\ submitMessage = MsgNone)
    /\ [][(SubmitAttempt /\ C7_FieldsPass(form)) =>
             /\ submit.stage = "idle" /\ ~isSubmitting
             /\ submit'.stage # "idle" /\ isSubmitting']_vars
    /\ [][(submit'.stage = "fetch" /\ submit' # submit) =>
             submit.stage \in {"idle", "encoding"}]_vars

\* the POST of a valid form is in flight and the submit button is disabled by
\* isSubmitting alone
C15_Witness ==
    /\ submit.stage = "fetch"
    /\ submit.posts = 1
    /\ C7_FieldsPass(form)
    /\ isSubmitting
    /\ ~uploadingImages
    /\ SubmitDisabled

====
